---- MODULE Spec2Model ----
(***************************************************************************)
(* Slack status updater: a worker that reads the day's Google Calendar     *)
(* events, derives a work location and either sets the Slack status,       *)
(* sends a reminder, or does nothing.                                       *)
(*                                                                         *)
(* Modelled revision: the modular worker (entry module, google-calendar,   *)
(* slack).  src/worker.ts is the earlier single-file revision of the same  *)
(* worker and is not part of this state machine.                           *)
(* Every outbound HTTP call of an invocation is appended to the            *)
(* invocation's call log; the Slack profile is shared external state that  *)
(* other writers (the user, other clients) may change at any time.         *)
(***************************************************************************)
EXTENDS Integers, Sequences, FiniteSets, TLC

(***************************************************************************)
(* Bounds                                                                  *)
(***************************************************************************)
MaxEvents == 2      \* longest event list returned for a day
MaxDay == 2         \* last day (counted from the epoch) the clock is read on

(***************************************************************************)
(* Strings that the code inspects character by character are sequences of  *)
(* one-character strings.                                                  *)
(***************************************************************************)
officeLocation == <<"o","f","f","i","c","e","L","o","c","a","t","i","o","n">>
homeOffice == <<"h","o","m","e","O","f","f","i","c","e">>
customLocation == <<"c","u","s","t","o","m","L","o","c","a","t","i","o","n">>
HomeOfficeUpper == <<"H","O","M","E","O","F","F","I","C","E">>
home == <<"h","o","m","e">>

Upper == <<"A","B","C","D","E","F","G","H","I","J","K","L","M",
           "N","O","P","Q","R","S","T","U","V","W","X","Y","Z">>
Lower == <<"a","b","c","d","e","f","g","h","i","j","k","l","m",
           "n","o","p","q","r","s","t","u","v","w","x","y","z">>

\* String.prototype.toLowerCase on one character
LowerChar(c) ==
  IF \E k \in 1..Len(Upper) : Upper[k] = c
  THEN Lower[CHOOSE k \in 1..Len(Upper) : Upper[k] = c]
  ELSE c

\* The string left as it is: the type test without its toLowerCase()
toLowerCase_Identity(s) == s

\* String.prototype.toLowerCase
toLowerCase(s) == [k \in 1..Len(s) |-> LowerChar(s[k])]

\* String.prototype.includes
includes(s, sub) ==
  \E k \in 0..(Len(s) - Len(sub)) : SubSeq(s, k + 1, k + Len(sub)) = sub

(***************************************************************************)
(* Calendar events.  NoWLP marks an event without workingLocationProperties*)
(***************************************************************************)
NoWLP == <<>>
NoLabel == <<>>
HomeLabel == <<"H","o","m","e">>

Event(type, label, location, summary) ==
  [type |-> type, label |-> label, location |-> location, summary |-> summary]

hasWorkingLocationProperties(event) == event.type # NoWLP

EventKinds ==
  { Event(NoWLP, NoLabel, "Home", "Working from home"),
    Event(officeLocation, NoLabel, "", "Office"),
    Event(homeOffice, NoLabel, "", "Home"),
    Event(HomeOfficeUpper, NoLabel, "", "Home"),
    Event(customLocation, HomeLabel, "", "Home") }

RECURSIVE SeqsUpTo(_, _)
SeqsUpTo(S, n) ==
  IF n = 0 THEN { <<>> }
  ELSE LET shorter == SeqsUpTo(S, n - 1)
       IN shorter \cup { Append(s, e) : s \in { t \in shorter : Len(t) = n - 1 }, e \in S }

EventLists == SeqsUpTo(EventKinds, MaxEvents)

\* workLocation values; null is the code's "no location"
null == "null"

\* The loop without its early returns: the last recognized event wins
RECURSIVE findWorkLocation_LastWins(_)
findWorkLocation_LastWins(items) ==
  IF items = <<>> THEN null
  ELSE LET event == items[Len(items)]
       IN IF hasWorkingLocationProperties(event) /\ event.type = officeLocation
          THEN "Office"
          ELSE IF hasWorkingLocationProperties(event)
                  /\ includes(toLowerCase(event.type), home)
               THEN "Home"
               ELSE findWorkLocation_LastWins(SubSeq(items, 1, Len(items) - 1))

\* The for-loop of getGoogleCalendarWorkLocation over calendarData.items
RECURSIVE findWorkLocation(_)
findWorkLocation(items) ==
  IF items = <<>> THEN null
  ELSE LET event == Head(items)
       IN IF hasWorkingLocationProperties(event) /\ event.type = officeLocation
          THEN "Office"
          ELSE IF hasWorkingLocationProperties(event)
                  /\ includes(toLowerCase(event.type), home)
               THEN "Home"
               ELSE findWorkLocation(Tail(items))

(***************************************************************************)
(* Configuration (Env) and fixed payloads                                  *)
(***************************************************************************)
SLACK_USER_ID == "U-configured"
ReminderText == "Please set your working location in Google Calendar for today."
AuthFailureText == "*Google Authentication Failed* The Google refresh token appears to have expired."

\* JavaScript truthiness of a string field: "" and a missing field are falsy
Absent == "(absent)"
Falsy(s) == s = "" \/ s = Absent

Triggers == {"scheduled", "fetch"}

\* Parsed request URLs of the manual trigger: new URL(request.url)
Hostnames == {"localhost", "127.0.0.1", "worker.example.com"}
Pathnames == {"/", "/status"}
Requests == [hostname : Hostnames, pathname : Pathnames]
NoRequest == [hostname |-> "", pathname |-> ""]

\* The Slack profile (status_text, status_emoji)
Profile(text, emoji) == [status_text |-> text, status_emoji |-> emoji]
ProfileValues ==
  { Profile("", ""), Profile("In a meeting", ""), Profile("", ":calendar:"),
    Profile("Working remotely", ":house_with_garden:") }

\* One outbound HTTP call
Call(api, text, emoji, channel) ==
  [api |-> api, text |-> text, emoji |-> emoji, channel |-> channel]
TokenCall == Call("oauth2.token", "", "", "")
EventsCall == Call("calendar.events.list", "", "", "")
ProfileGetCall == Call("users.profile.get", "", "", "")
ProfileSetCall(text, emoji) == Call("users.profile.set", text, emoji, "")
PostMessageCall(text) == Call("chat.postMessage", text, "", SLACK_USER_ID)

\* Outcome of an upstream call as seen by the worker
Outcomes == {"ok", "notok", "throw"}
TokenResponses == {"ya29.access", "", Absent, "throw"}
NoReply == [outcome |-> "none", profile |-> Profile("", "")]

(***************************************************************************)
(* Dates: a Date is its epoch milliseconds; local time is UTC plus the     *)
(* zone's offset.  status_expiration = getTime() / 1000 is kept as its     *)
(* whole seconds and its thousandths.                                      *)
(***************************************************************************)
MsPerSecond == 1000
MsPerMinute == 60 * MsPerSecond
MsPerHour == 60 * MsPerMinute
MsPerDay == 24 * MsPerHour

\* Date.prototype.setHours / setMinutes / setSeconds / setMilliseconds
setHours(t, offset, h) ==
  LET local == t + offset
  IN (local \div MsPerDay) * MsPerDay + h * MsPerHour + (local % MsPerHour) - offset
setMinutes(t, offset, m) ==
  LET local == t + offset
  IN (local \div MsPerHour) * MsPerHour + m * MsPerMinute + (local % MsPerMinute) - offset
setSeconds(t, offset, sec) ==
  LET local == t + offset
  IN (local \div MsPerMinute) * MsPerMinute + sec * MsPerSecond + (local % MsPerSecond) - offset
setMilliseconds(t, offset, ms) ==
  LET local == t + offset
  IN (local \div MsPerSecond) * MsPerSecond + ms - offset

\* No expiration, as users.profile.set reads 0
statusExpiration_None(now, offset) == [whole |-> 0, thousandths |-> 0]

\* status_expiration of updateSlackStatus: end of the current day / 1000
statusExpiration(now, offset) ==
  LET today == setMilliseconds(setSeconds(setMinutes(setHours(now, offset, 23),
                                                     offset, 59), offset, 59), offset, 999)
  IN [whole |-> today \div MsPerSecond, thousandths |-> today % MsPerSecond]

\* The body of the users.profile.set request
profileSetBody(status_text, status_emoji, now, offset) ==
  [status_text |-> status_text, status_emoji |-> status_emoji,
   status_expiration |-> statusExpiration(now, offset)]
NoBody == [status_text |-> "", status_emoji |-> "",
           status_expiration |-> [whole |-> 0 - 1, thousandths |-> 0]]

\* Clock readings: a time of day on one of the days, in one of the zones
TimesOfDay ==
  { 0, 1, 999, 1000, 8 * MsPerHour, 12 * MsPerHour,
    18 * MsPerHour + 30 * MsPerMinute, 19 * MsPerHour, 23 * MsPerHour,
    MsPerDay - 1001, MsPerDay - 1000, MsPerDay - 1 }
ZoneOffsets == { 0 - 5 * MsPerHour, 0, 5 * MsPerHour + 30 * MsPerMinute }
Clocks ==
  { [now |-> d * MsPerDay + t, offset |-> z] :
      d \in 1..MaxDay, t \in TimesOfDay, z \in ZoneOffsets }
\* The daily cron reading, 08:00 UTC
CronClock == [now |-> MsPerDay + 8 * MsPerHour, offset |-> 0]

VARIABLES
  events,        \* the day's events as the calendar provider returns them
  profile,       \* the Slack profile held by the chat provider
  pc,            \* position of each invocation
  request,       \* parsed URL of the manual trigger's request
  response,      \* HTTP status answered by the manual trigger (0: none)
  workLocation,  \* calendar.workLocation of each invocation
  reply,         \* the users.profile.get response in flight to the worker
  calls,         \* outbound calls made by each invocation, in order
  notification,  \* how the auth-failure post of each invocation ended
  clock,         \* what new Date() reads, and the local time zone's offset
  body,          \* the JSON body built for users.profile.set
  error          \* the error an invocation ended with ("" if none)

vars == <<events, profile, pc, request, response,
          workLocation, reply, calls, notification, clock, body, error>>

Init ==
  /\ events \in EventLists
  /\ profile \in ProfileValues
  /\ pc = [i \in Triggers |-> "idle"]
  /\ request = NoRequest
  /\ response = 0
  /\ workLocation = [i \in Triggers |-> "pending"]
  /\ reply = [i \in Triggers |-> NoReply]
  /\ calls = [i \in Triggers |-> <<>>]
  /\ notification = [i \in Triggers |-> "none"]
  /\ clock = CronClock
  /\ body = NoBody
  /\ error = [i \in Triggers |-> ""]

\* Number of calls of invocation i to the given API
RECURSIVE CountIn(_, _)
CountIn(log, api) ==
  IF log = <<>> THEN 0
  ELSE (IF Head(log).api = api THEN 1 ELSE 0) + CountIn(Tail(log), api)

Count(i, api) == CountIn(calls[i], api)

RECURSIVE CountTextIn(_, _, _)
CountTextIn(log, api, text) ==
  IF log = <<>> THEN 0
  ELSE (IF Head(log).api = api /\ Head(log).text = text THEN 1 ELSE 0)
       + CountTextIn(Tail(log), api, text)

\* A trigger's handler returns normally / catches an error
Completed(i) ==
  /\ pc' = [pc EXCEPT ![i] = "done"]
  /\ error' = error
  /\ response' = IF i = "fetch" THEN 200 ELSE response

Failed(i, e) ==
  /\ pc' = [pc EXCEPT ![i] = "done"]
  /\ error' = [error EXCEPT ![i] = e]
  /\ response' = IF i = "fetch" THEN 500 ELSE response

\* Start of handleStatusUpdate: getGoogleAccessToken issues the token request
StartStatusUpdate(i) ==
  /\ pc' = [pc EXCEPT ![i] = "token"]
  /\ workLocation' = [workLocation EXCEPT ![i] = "pending"]
  /\ reply' = [reply EXCEPT ![i] = NoReply]
  /\ calls' = [calls EXCEPT ![i] = <<TokenCall>>]
  /\ notification' = [notification EXCEPT ![i] = "none"]
  /\ error' = [error EXCEPT ![i] = ""]

\* The cron trigger
scheduled ==
  /\ pc["scheduled"] \in {"idle", "done"}
  /\ StartStatusUpdate("scheduled")
  /\ UNCHANGED <<clock, body, events, profile, request, response>>

\* The loopback test that forgets the numeric loopback address
isLocalhost_NameOnly(url) == url.hostname = "localhost"

isLocalhost(url) == url.hostname = "localhost" \/ url.hostname = "127.0.0.1"

\* The manual HTTP trigger
fetch ==
  /\ pc["fetch"] \in {"idle", "done"}
  /\ \E url \in Requests :
       /\ request' = url
       /\ IF url.pathname # "/"
          THEN /\ response' = 404
               /\ pc' = [pc EXCEPT !["fetch"] = "done"]
               /\ calls' = [calls EXCEPT !["fetch"] = <<>>]
               /\ notification' = [notification EXCEPT !["fetch"] = "none"]
               /\ error' = [error EXCEPT !["fetch"] = ""]
               /\ workLocation' = [workLocation EXCEPT !["fetch"] = "pending"]
               /\ reply' = [reply EXCEPT !["fetch"] = NoReply]
          ELSE IF ~isLocalhost(url)
          THEN /\ response' = 403
               /\ pc' = [pc EXCEPT !["fetch"] = "done"]
               /\ calls' = [calls EXCEPT !["fetch"] = <<>>]
               /\ notification' = [notification EXCEPT !["fetch"] = "none"]
               /\ error' = [error EXCEPT !["fetch"] = ""]
               /\ workLocation' = [workLocation EXCEPT !["fetch"] = "pending"]
               /\ reply' = [reply EXCEPT !["fetch"] = NoReply]
          ELSE /\ response' = 0
               /\ StartStatusUpdate("fetch")
  /\ UNCHANGED <<clock, body, events, profile>>

\* getGoogleAccessToken that throws without posting the diagnostic message
getGoogleAccessToken_NoNotify(i) ==
  /\ pc[i] = "token"
  /\ \E access_token \in TokenResponses :
       IF access_token = "throw"
       THEN /\ Failed(i, "network")
            /\ calls' = calls
       ELSE IF Falsy(access_token)
       THEN /\ Failed(i, "auth")
            /\ calls' = calls
       ELSE /\ pc' = [pc EXCEPT ![i] = "calendar"]
            /\ calls' = [calls EXCEPT ![i] = Append(@, EventsCall)]
            /\ UNCHANGED <<error, response>>
  /\ UNCHANGED <<clock, body, events, profile, request, notification, workLocation, reply>>

\* getGoogleAccessToken after the token endpoint answered
getGoogleAccessToken(i) ==
  /\ pc[i] = "token"
  /\ \E access_token \in TokenResponses :
       IF access_token = "throw"
       THEN /\ Failed(i, "network")
            /\ calls' = calls
       ELSE IF Falsy(access_token)
       THEN \* sendAuthFailureNotification posts the diagnostic message
            /\ pc' = [pc EXCEPT ![i] = "authNotify"]
            /\ calls' = [calls EXCEPT ![i] = Append(@, PostMessageCall(AuthFailureText))]
            /\ UNCHANGED <<error, response>>
       ELSE \* getGoogleCalendarWorkLocation requests the day's events
            /\ pc' = [pc EXCEPT ![i] = "calendar"]
            /\ calls' = [calls EXCEPT ![i] = Append(@, EventsCall)]
            /\ UNCHANGED <<error, response>>
  /\ UNCHANGED <<clock, body, events, profile, request, notification, workLocation, reply>>

\* sendAuthFailureNotification written like sendSlackMessage: a refused or
\* broken post throws its own error
sendAuthFailureNotification_Propagate(i) ==
  /\ pc[i] = "authNotify"
  /\ \E outcome \in Outcomes :
       /\ notification' = [notification EXCEPT ![i] = outcome]
       /\ IF outcome = "ok" THEN Failed(i, "auth")
          ELSE IF outcome = "notok" THEN Failed(i, "slack")
          ELSE Failed(i, "network")
  /\ UNCHANGED <<clock, body, events, profile, request, workLocation, reply, calls>>

\* sendAuthFailureNotification after chat.postMessage answered: every outcome
\* is swallowed, then getGoogleAccessToken throws the authentication error
sendAuthFailureNotification(i) ==
  /\ pc[i] = "authNotify"
  /\ \E outcome \in Outcomes :
       /\ notification' = [notification EXCEPT ![i] = outcome]
       /\ Failed(i, "auth")
  /\ UNCHANGED <<clock, body, events, profile, request, workLocation, reply, calls>>

\* handleStatusUpdate that acts only when the day has events
handleStatusUpdate_HasEventsGate(i, location) ==
  IF Len(events) > 0 /\ location = "Home"
  THEN /\ pc' = [pc EXCEPT ![i] = "profileGet"]
       /\ calls' = [calls EXCEPT ![i] = Append(@, ProfileGetCall)]
       /\ UNCHANGED <<error, response>>
  ELSE IF Len(events) > 0 /\ location = null
  THEN /\ pc' = [pc EXCEPT ![i] = "message"]
       /\ calls' = [calls EXCEPT ![i] = Append(@, PostMessageCall(ReminderText))]
       /\ UNCHANGED <<error, response>>
  ELSE /\ Completed(i)
       /\ calls' = calls

\* handleStatusUpdate whose second branch is a plain else
handleStatusUpdate_ElseReminder(i, location) ==
  IF location = "Home"
  THEN /\ pc' = [pc EXCEPT ![i] = "profileGet"]
       /\ calls' = [calls EXCEPT ![i] = Append(@, ProfileGetCall)]
       /\ UNCHANGED <<error, response>>
  ELSE /\ pc' = [pc EXCEPT ![i] = "message"]
       /\ calls' = [calls EXCEPT ![i] = Append(@, PostMessageCall(ReminderText))]
       /\ UNCHANGED <<error, response>>

\* The branch of handleStatusUpdate on calendar.workLocation
handleStatusUpdate(i, location) ==
  IF location = "Home"
  THEN \* updateSlackStatus -> getCurrentSlackStatus requests the profile
       /\ pc' = [pc EXCEPT ![i] = "profileGet"]
       /\ calls' = [calls EXCEPT ![i] = Append(@, ProfileGetCall)]
       /\ UNCHANGED <<error, response>>
  ELSE IF location = null
  THEN \* sendSlackMessage posts the reminder
       /\ pc' = [pc EXCEPT ![i] = "message"]
       /\ calls' = [calls EXCEPT ![i] = Append(@, PostMessageCall(ReminderText))]
       /\ UNCHANGED <<error, response>>
  ELSE /\ Completed(i)
       /\ calls' = calls

\* getGoogleCalendarWorkLocation after the events endpoint answered
\* (calendarData.items is absent or a list; absent is read as [])
getGoogleCalendarWorkLocation(i) ==
  /\ pc[i] = "calendar"
  /\ \E outcome \in Outcomes :
       IF outcome = "throw"
       THEN /\ Failed(i, "network")
            /\ UNCHANGED <<calls, workLocation>>
       ELSE IF outcome = "notok"
       THEN /\ Failed(i, "calendar")
            /\ UNCHANGED <<calls, workLocation>>
       ELSE LET location == findWorkLocation(events)
            IN /\ workLocation' = [workLocation EXCEPT ![i] = location]
               /\ handleStatusUpdate(i, location)
  /\ UNCHANGED <<clock, body, events, profile, request, notification, reply>>

\* The chat provider answers users.profile.get with the profile it holds now
SlackProfileGet(i) ==
  /\ pc[i] = "profileGet"
  /\ \E outcome \in Outcomes :
       reply' = [reply EXCEPT ![i] = [outcome |-> outcome, profile |-> profile]]
  /\ pc' = [pc EXCEPT ![i] = "gotProfile"]
  /\ UNCHANGED <<clock, body, events, profile, request, notification, response,
                 workLocation, calls, error>>

\* The null that getCurrentSlackStatus returns in place of a profile
nullStatus == [status_text |-> null, status_emoji |-> null]

\* getCurrentSlackStatus that never finds a status
getCurrentSlackStatus_AlwaysNull(data) == nullStatus

\* getCurrentSlackStatus with || in place of &&
getCurrentSlackStatus_Or(data) ==
  IF Falsy(data.profile.status_text) \/ Falsy(data.profile.status_emoji)
  THEN nullStatus
  ELSE data.profile

\* getCurrentSlackStatus: null when neither text nor emoji is set
getCurrentSlackStatus(data) ==
  IF Falsy(data.profile.status_text) /\ Falsy(data.profile.status_emoji)
  THEN nullStatus
  ELSE data.profile

\* updateSlackStatus that writes whatever the current status is
updateSlackStatus_NoCheck(i, status_text, status_emoji) ==
  /\ pc[i] = "gotProfile"
  /\ IF reply[i].outcome = "throw"
     THEN /\ Failed(i, "network")
          /\ calls' = calls
     ELSE IF reply[i].outcome = "notok"
     THEN /\ Failed(i, "slack")
          /\ calls' = calls
     ELSE /\ pc' = [pc EXCEPT ![i] = "profileSet"]
          /\ calls' = [calls EXCEPT ![i] = Append(@, ProfileSetCall(status_text, status_emoji))]
          /\ UNCHANGED <<error, response>>
  /\ UNCHANGED <<clock, body, events, profile, request, notification, workLocation, reply>>

\* updateSlackStatus whose profile read does not test data.ok: a refused read
\* is taken for an empty profile
updateSlackStatus_IgnoreNotOk(i, status_text, status_emoji) ==
  /\ pc[i] = "gotProfile"
  /\ IF reply[i].outcome = "throw"
     THEN /\ Failed(i, "network")
          /\ calls' = calls
     ELSE IF reply[i].outcome = "notok" \/ getCurrentSlackStatus(reply[i]) = nullStatus
     THEN /\ pc' = [pc EXCEPT ![i] = "profileSet"]
          /\ calls' = [calls EXCEPT ![i] = Append(@, ProfileSetCall(status_text, status_emoji))]
          /\ UNCHANGED <<error, response>>
     ELSE /\ Completed(i)
          /\ calls' = calls
  /\ UNCHANGED <<clock, body, events, profile, request, notification, workLocation, reply>>

\* updateSlackStatus once the profile response has arrived
updateSlackStatus(i, status_text, status_emoji) ==
  /\ pc[i] = "gotProfile"
  /\ IF reply[i].outcome = "throw"
     THEN /\ Failed(i, "network")
          /\ calls' = calls
     ELSE IF reply[i].outcome = "notok"
     THEN /\ Failed(i, "slack")
          /\ calls' = calls
     ELSE IF getCurrentSlackStatus(reply[i]) = nullStatus
     THEN /\ pc' = [pc EXCEPT ![i] = "profileSet"]
          /\ calls' = [calls EXCEPT ![i] = Append(@, ProfileSetCall(status_text, status_emoji))]
          /\ UNCHANGED <<error, response>>
     ELSE /\ Completed(i)
          /\ calls' = calls
  /\ UNCHANGED <<clock, body, events, profile, request, notification, workLocation, reply>>

\* The users.profile.set call in flight from invocation i
PendingSet(i) == calls[i][Len(calls[i])]

\* The chat provider handles users.profile.set and the worker reads the answer
SlackProfileSet(i) ==
  /\ pc[i] = "profileSet"
  /\ LET written == Profile(PendingSet(i).text, PendingSet(i).emoji)
     IN \E outcome \in Outcomes :
          IF outcome = "ok"
          THEN /\ profile' = written
               /\ Completed(i)
          ELSE IF outcome = "notok"
          THEN /\ profile' = profile
               /\ Failed(i, "slack")
          ELSE \* the connection broke before or after the provider applied it
               /\ profile' \in {profile, written}
               /\ Failed(i, "network")
  /\ UNCHANGED <<clock, body, events, request, notification, workLocation, reply, calls>>

\* sendSlackMessage after chat.postMessage answered
sendSlackMessage(i) ==
  /\ pc[i] = "message"
  /\ \E outcome \in Outcomes :
       IF outcome = "ok" THEN Completed(i)
       ELSE IF outcome = "notok" THEN Failed(i, "slack")
       ELSE Failed(i, "network")
  /\ UNCHANGED <<clock, body, events, profile, request, notification, workLocation, reply, calls>>

\* Another writer (the user, another client) changes or clears the status
ExternalChange ==
  /\ profile' \in ProfileValues \ {profile}
  /\ UNCHANGED <<clock, body, events, pc, request, notification, response, workLocation, reply, calls, error>>

Next ==
  \/ scheduled
  \/ fetch
  \/ \E i \in Triggers : getGoogleAccessToken(i)
  \/ \E i \in Triggers : sendAuthFailureNotification(i)
  \/ \E i \in Triggers : getGoogleCalendarWorkLocation(i)
  \/ \E i \in Triggers : SlackProfileGet(i)
  \/ \E i \in Triggers : updateSlackStatus(i, "Working remotely", ":house_with_garden:")
  \/ \E i \in Triggers : SlackProfileSet(i)
  \/ \E i \in Triggers : sendSlackMessage(i)
  \/ ExternalChange

Spec == Init /\ [][Next]_vars

TypeOK ==
  /\ events \in EventLists
  /\ profile \in ProfileValues
  /\ \A i \in Triggers :
       /\ pc[i] \in {"idle", "token", "authNotify", "calendar", "profileGet",
                     "gotProfile", "profileSet", "message", "done"}
       /\ workLocation[i] \in {"pending", "Office", "Home", null}
  /\ response \in {0, 200, 403, 404, 500}

(***************************************************************************)
(* Vocabulary of the properties                                            *)
(***************************************************************************)
\* The invocation has received the calendar's events and decided
Decided(i) == workLocation[i] # "pending"

\* The invocation ran handleStatusUpdate to its end without any error
Succeeded(i) == pc[i] = "done" /\ error[i] = "" /\ calls[i] # <<>>

\* Types that declare a home location, and types that declare any location
HomeTypes == {homeOffice, HomeOfficeUpper}
RecognizedTypes == {officeLocation} \cup HomeTypes

\* The invocation's profile read returned this profile
ReadUnset(i) ==
  /\ reply[i].outcome = "ok"
  /\ reply[i].profile.status_text = ""
  /\ reply[i].profile.status_emoji = ""
ReadSet(i) ==
  /\ reply[i].outcome = "ok"
  /\ (reply[i].profile.status_text # "" \/ reply[i].profile.status_emoji # "")

ProfileIsUnset == profile.status_text = "" /\ profile.status_emoji = ""

\* The step appends a users.profile.set call to invocation i's log
IssuesSet(i) ==
  /\ Len(calls'[i]) = Len(calls[i]) + 1
  /\ calls'[i][Len(calls'[i])].api = "users.profile.set"

\* C1: in an invocation that decided Home, exactly one users.profile.set call
\* is made when the profile read returned text and icon both empty, none when
\* either was non-empty, and the call carries the text "Working remotely".
C1_HomeWritesOnceIffUnset ==
  \A i \in Triggers :
    workLocation[i] = "Home" =>
      /\ (ReadUnset(i) /\ pc[i] \in {"profileSet", "done"}) =>
            /\ Count(i, "users.profile.set") = 1
            /\ CountTextIn(calls[i], "users.profile.set", "Working remotely") = 1
      /\ ReadSet(i) => Count(i, "users.profile.set") = 0

\* One invocation wrote the status, the other found it set and wrote nothing
C1_Witness ==
  \E i, j \in Triggers :
    /\ i # j
    /\ workLocation[i] = "Home" /\ pc[i] = "done" /\ ReadUnset(i)
    /\ Count(i, "users.profile.set") = 1
    /\ workLocation[j] = "Home" /\ pc[j] = "done" /\ ReadSet(j)
    /\ Count(j, "users.profile.set") = 0

NoSlackCall(i) ==
  /\ Count(i, "users.profile.get") = 0
  /\ Count(i, "users.profile.set") = 0
  /\ Count(i, "chat.postMessage") = 0

\* C4 as stated: whenever the day's list contains an officeLocation event the
\* decision is Office and no profile read, write or message happens.
C4_AnyOfficeEventMeansOffice ==
  \A i \in Triggers :
    (Decided(i) /\ \E k \in 1..Len(events) : events[k].type = officeLocation) =>
      /\ workLocation[i] = "Office"
      /\ NoSlackCall(i)

\* C4 amended: when an officeLocation event comes before every event whose
\* type contains "home", the decision is Office and no profile read, write
\* or message happens.
C4_FirstOfficeEventMeansOffice ==
  \A i \in Triggers :
    (Decided(i) /\ \E k \in 1..Len(events) :
                      /\ events[k].type = officeLocation
                      /\ \A j \in 1..(k - 1) : events[j].type \notin HomeTypes) =>
      /\ workLocation[i] = "Office"
      /\ NoSlackCall(i)

\* An office day ran to its end
C4_Witness ==
  \E i \in Triggers :
    /\ Len(events) = 2
    /\ events[2].type = officeLocation
    /\ events[1].type \notin RecognizedTypes
    /\ Succeeded(i)
    /\ workLocation[i] = "Office"

\* C5: when the token response carries no access_token the invocation posts
\* exactly one auth-failure message and makes no calendar call, no profile
\* read or write and no reminder.
C5_AuthFailureNotifiesOnce ==
  \A i \in Triggers :
    (pc[i] = "authNotify" \/ error[i] = "auth") =>
      /\ Count(i, "chat.postMessage") = 1
      /\ CountTextIn(calls[i], "chat.postMessage", AuthFailureText) = 1
      /\ Count(i, "calendar.events.list") = 0
      /\ Count(i, "users.profile.get") = 0
      /\ Count(i, "users.profile.set") = 0

\* An invocation ended with the authentication error
C5_Witness ==
  \E i \in Triggers : pc[i] = "done" /\ error[i] = "auth"

C7_NoEventsNoAction ==
  \A i \in Triggers :
    events = <<>> =>
      /\ Count(i, "users.profile.set") = 0
      /\ CountTextIn(calls[i], "chat.postMessage", ReminderText) = 0

\* A custom location whose label contains "home" in any letter case
IsCustomHome(event) ==
  /\ event.type = customLocation
  /\ includes(toLowerCase(event.label), home)

\* C8 as stated: a customLocation event labelled "Home" yields Home when no
\* earlier event of the day yields a location.
C8_CustomHomeLabelMeansHome ==
  \A i \in Triggers :
    (Decided(i) /\ \E k \in 1..Len(events) :
                      /\ IsCustomHome(events[k])
                      /\ \A j \in 1..(k - 1) :
                           /\ events[j].type \notin RecognizedTypes
                           /\ ~IsCustomHome(events[j])) =>
      workLocation[i] = "Home"

\* C8 amended: an event whose workingLocationProperties.type contains "home"
\* in any letter case yields Home when no earlier event yields a location.
C8_HomeTypeMeansHome ==
  \A i \in Triggers :
    (Decided(i) /\ \E k \in 1..Len(events) :
                      /\ events[k].type \in HomeTypes
                      /\ \A j \in 1..(k - 1) : events[j].type \notin RecognizedTypes) =>
      workLocation[i] = "Home"

\* A day whose home type is written in capitals was decided Home
C8_Witness ==
  \E i \in Triggers :
    /\ Len(events) > 0
    /\ events[Len(events)].type = HomeOfficeUpper
    /\ \A j \in 1..(Len(events) - 1) : events[j].type \notin RecognizedTypes
    /\ workLocation[i] = "Home"

\* C9 as stated: a request for "/status" on localhost runs the status check.
C9_StatusPathRunsCheck ==
  (pc["fetch"] = "done" /\ request = [hostname |-> "localhost", pathname |-> "/status"]) =>
    Count("fetch", "calendar.events.list") + Count("fetch", "oauth2.token") > 0

\* Positions of the events that declare a recognized type
RecognizedAt == { k \in 1..Len(events) : events[k].type \in RecognizedTypes }

\* C10: the lookup's result is the classification of the earliest event with
\* a recognized workingLocationProperties type; later events and events
\* without workingLocationProperties do not matter; Unset when none.
C10_EarliestRecognizedEventDecides ==
  \A i \in Triggers :
    Decided(i) =>
      IF RecognizedAt = {}
      THEN workLocation[i] = null
      ELSE LET first == CHOOSE k \in RecognizedAt : \A j \in RecognizedAt : k <= j
           IN workLocation[i] = IF events[first].type = officeLocation
                                THEN "Office" ELSE "Home"

\* An event with the free-text location "Home" and no
\* workingLocationProperties was skipped and the office event after it decided
C10_Witness ==
  \E i \in Triggers :
    /\ Len(events) = 2
    /\ events[1].type = NoWLP /\ events[1].location = "Home"
    /\ events[2].type = officeLocation
    /\ workLocation[i] = "Office"

\* The last outbound call of invocation i
LastCall(i) == calls[i][Len(calls[i])]

\* Upstream calls whose refusal ends the invocation
UpstreamApis ==
  {"calendar.events.list", "users.profile.get", "users.profile.set", "chat.postMessage"}

\* C11: when the events list, the profile read, the profile write or the
\* reminder post is refused, the invocation ends there: the refused call is
\* its last call and was made once, the manual trigger answers 500, and a
\* refused profile read is followed by no write and no reminder.
C11_UpstreamErrorEndsInvocation ==
  \A i \in Triggers :
    /\ error[i] \in {"calendar", "slack"} =>
         /\ pc[i] = "done"
         /\ LastCall(i).api \in UpstreamApis
         /\ error[i] = "calendar" <=> LastCall(i).api = "calendar.events.list"
         /\ Count(i, LastCall(i).api) = 1
         /\ i = "fetch" => response = 500
    /\ (reply[i].outcome = "notok" /\ pc[i] # "gotProfile") =>
         /\ pc[i] = "done"
         /\ error[i] = "slack"
         /\ LastCall(i).api = "users.profile.get"
         /\ Count(i, "users.profile.set") = 0
         /\ Count(i, "chat.postMessage") = 0

\* The manual trigger answered 500 after a refused profile read
C11_Witness ==
  /\ pc["fetch"] = "done"
  /\ reply["fetch"].outcome = "notok"
  /\ error["fetch"] = "slack"
  /\ response = 500

\* C12: when the token refresh fails and the auth-failure post is refused or
\* breaks, the invocation still ends with the authentication error (500 on
\* the manual trigger), the post was made once and is the last call.
C12_NotificationFailureSwallowed ==
  \A i \in Triggers :
    notification[i] \in {"notok", "throw"} =>
      /\ pc[i] = "done"
      /\ error[i] = "auth"
      /\ i = "fetch" => response = 500
      /\ calls[i] = <<TokenCall, PostMessageCall(AuthFailureText)>>

\* The manual trigger answered 500 after the auth-failure post broke
C12_Witness ==
  /\ notification["fetch"] = "throw"
  /\ pc["fetch"] = "done"
  /\ error["fetch"] = "auth"
  /\ response = 500

(***************************************************************************)
(* The expiration computed by updateSlackStatus, for every clock reading   *)
(***************************************************************************)
InitExpiry ==
  /\ events = <<>>
  /\ profile = Profile("", "")
  /\ pc = [i \in Triggers |-> "idle"]
  /\ request = NoRequest
  /\ response = 0
  /\ workLocation = [i \in Triggers |-> "pending"]
  /\ reply = [i \in Triggers |-> NoReply]
  /\ calls = [i \in Triggers |-> <<>>]
  /\ notification = [i \in Triggers |-> "none"]
  /\ error = [i \in Triggers |-> ""]
  /\ clock \in Clocks
  /\ body = NoBody

\* updateSlackStatus builds the request body at the clock's reading
buildProfileSetBody ==
  /\ body = NoBody
  /\ body' = profileSetBody("Working remotely", ":house_with_garden:",
                            clock.now, clock.offset)
  /\ UNCHANGED <<events, profile, pc, request, response, workLocation, reply,
                 calls, notification, clock, error>>

NextExpiry == buildProfileSetBody

SpecExpiry == InitExpiry /\ [][NextExpiry]_vars

\* 23:59:59 of the clock's local day, in epoch seconds
EndOfDaySeconds ==
  LET localDay == (clock.now + clock.offset) \div MsPerDay
  IN ((localDay + 1) * MsPerDay - MsPerSecond - clock.offset) \div MsPerSecond

InitSolo ==
  /\ Init
  /\ profile = Profile("", "")

Resting(i) == pc[i] \in {"idle", "done"}

SoloScheduled ==
  /\ Resting("fetch")
  /\ Count("scheduled", "users.profile.set") = 0
  /\ scheduled

SoloFetch ==
  /\ Resting("scheduled")
  /\ Count("fetch", "users.profile.set") = 0
  /\ fetch

NextSolo ==
  \/ SoloScheduled
  \/ SoloFetch
  \/ \E i \in Triggers : getGoogleAccessToken(i)
  \/ \E i \in Triggers : sendAuthFailureNotification(i)
  \/ \E i \in Triggers : getGoogleCalendarWorkLocation(i)
  \/ \E i \in Triggers : SlackProfileGet(i)
  \/ \E i \in Triggers : updateSlackStatus(i, "Working remotely", ":house_with_garden:")
  \/ \E i \in Triggers : SlackProfileSet(i)
  \/ \E i \in Triggers : sendSlackMessage(i)

SpecSolo == InitSolo /\ [][NextSolo]_vars

\* users.profile.set calls of the day
TotalSetCalls ==
  Count("scheduled", "users.profile.set") + Count("fetch", "users.profile.set")

\* C14 as stated: once an invocation that decided Home has succeeded, exactly
\* one users.profile.set call has been made in total.
C14_ExactlyOneSetCallInTotal ==
  (\E i \in Triggers : Succeeded(i) /\ workLocation[i] = "Home") => TotalSetCalls = 1

\* C14 amended: a users.profile.set call is issued only while the profile is
\* still unset and at most one invocation's call succeeds; once the profile
\* is set no call is issued and the profile stays as it is, and an invocation
\* that read it as set made no call.
C14_AtMostOneSetCallApplied ==
  /\ [](/\ Cardinality({ i \in Triggers : Succeeded(i)
                                           /\ Count(i, "users.profile.set") = 1 }) <= 1
        /\ \A i \in Triggers : ReadSet(i) => Count(i, "users.profile.set") = 0)
  /\ [][/\ \A i \in Triggers : IssuesSet(i) => ProfileIsUnset
        /\ ~ProfileIsUnset =>
             /\ profile' = profile
             /\ \A i \in Triggers : ~IssuesSet(i)]_vars

\* The first invocation wrote the status; the next one read it back as
\* written and ended without a call
C14_Witness ==
  \E i, j \in Triggers :
    /\ Succeeded(i) /\ Count(i, "users.profile.set") = 1
    /\ Succeeded(j) /\ Count(j, "users.profile.set") = 0
    /\ reply[j].profile = Profile("Working remotely", ":house_with_garden:")
    /\ profile = Profile("Working remotely", ":house_with_garden:")

====
